---- MODULE Spec2Model ----
(***************************************************************************)
(* The assembly runner extension (src/src/extension.ts): the commands      *)
(* asm.debug, asm.run and asm.stop, the external commands they spawn with  *)
(* child_process.exec (tasklist, taskkill, nasm, ALINK, ollydbg), the      *)
(* module-level state they share and the files they create and delete.     *)
(*                                                                         *)
(* A command is an async function: it runs without interruption up to the  *)
(* next exec whose completion callback it awaits.  One action of the model *)
(* is one such uninterrupted run: the invocation of a command, or the      *)
(* delivery of one callback together with everything the code does before  *)
(* it suspends again.  Several invocations can be suspended at once (the   *)
(* editor accepts asm.stop while asm.debug waits for the debugger).        *)
(***************************************************************************)
EXTENDS Integers, Sequences, FiniteSets, TLC

VARIABLES
    isRunning,                   \* setting asm.showStopIconInEditorTitleMenu
    stoppingExecutable,          \* extension.ts:14
    currentDebugFileExecutable,  \* extension.ts:13
    activeTextEditor,            \* extension.ts:12, None when undefined
    executablePath,              \* setting asm.executablePath is non-empty
    showTerminalInDebugMode,     \* setting asm.showTerminalInDebugMode
    diagnostics,                 \* diagnosticCollection: file -> diagnostic
    disk,                        \* derived files that exist
    targets,                     \* names of running target processes
    inv,                         \* the invocations, one record per slot
    lastDone,                    \* the invocation the last step ended
    errText,                     \* Error Locator harness: the error text
    located                      \* Error Locator harness: the outcome

vars == <<isRunning, stoppingExecutable, currentDebugFileExecutable,
          showTerminalInDebugMode,
          activeTextEditor, executablePath, diagnostics, disk, targets,
          inv, lastDone, errText, located>>

(***************************************************************************)
(* Bounds.                                                                 *)
(***************************************************************************)
\* command invocations that can be suspended at the same time
MaxInv == 2
\* longest error text of the Error Locator harness, in characters
MaxLen == 6

None == "none"
Slots == 1 .. MaxInv

(***************************************************************************)
(* Texts are sequences of one-character strings.                           *)
(***************************************************************************)
NL == "\n"
Digits == {"0", "7"}
Chars == {NL, ":", "x"} \cup Digits

DigitVal(c) == IF c = "7" THEN 7 ELSE 0

\* the source file an editor can show (a Windows path)
Sources == { <<"d", "\\", "a", ".", "a", "s", "m">> }

OLLYDBG_COMMAND == <<"o", "l", "l", "y", "d", "b", "g", ".", "e", "x", "e">>

\* String.prototype.slice(0, -n)
SliceOff(s, n) == SubSeq(s, 1, Len(s) - n)

\* the derived paths: currentFile.slice(0, -3) + "lst" / "obj" / "exe"
lstFile(f) == SliceOff(f, 3) \o <<"l", "s", "t">>
objFile(f) == SliceOff(f, 3) \o <<"o", "b", "j">>
exeFile(f) == SliceOff(f, 3) \o <<"e", "x", "e">>

RECURSIVE LastSep(_, _, _)
\* the last index of character c in s at or before position k, 0 when absent
LastSep(s, c, k) ==
    IF k = 0 THEN 0
    ELSE IF s[k] = c THEN k
    ELSE LastSep(s, c, k - 1)

\* path.split("\\").pop()
fileExecutableName(f) ==
    LET e == exeFile(f)
    IN  SubSeq(e, LastSep(e, "\\", Len(e)) + 1, Len(e))

DerivedFiles == UNION { {lstFile(f), objFile(f), exeFile(f)} : f \in Sources }
TargetNames == { fileExecutableName(f) : f \in Sources }

(***************************************************************************)
(* The Error Locator: the error branch of startExecutable's callback       *)
(* (extension.ts:172-201).                                                 *)
(***************************************************************************)
RECURSIVE SplitAt(_, _, _, _)
\* String.prototype.split(sep) from position i, cur the piece being read
SplitAt(s, sep, i, cur) ==
    IF i > Len(s) THEN <<cur>>
    ELSE IF s[i] = sep THEN <<cur>> \o SplitAt(s, sep, i + 1, <<>>)
    ELSE SplitAt(s, sep, i + 1, Append(cur, s[i]))

Split(s, sep) == SplitAt(s, sep, 1, <<>>)

RECURSIVE DigitRunEnd(_, _)
\* \d+ is greedy: the first position at or after k that holds no digit
DigitRunEnd(line, k) ==
    IF k <= Len(line) /\ line[k] \in Digits THEN DigitRunEnd(line, k + 1)
    ELSE k

\* the pattern without its closing colon, /:(\d+)/
MatchAt_NoClosingColon(line, i) ==
    /\ line[i] = ":"
    /\ DigitRunEnd(line, i + 1) > i + 1

\* /:(\d+):/ matches with its first colon at position i
MatchAt(line, i) ==
    /\ line[i] = ":"
    /\ LET e == DigitRunEnd(line, i + 1)
       IN  e > i + 1 /\ e <= Len(line) /\ line[e] = ":"

RECURSIVE FirstMatch(_, _)
\* String.prototype.match: the leftmost position where the pattern matches,
\* 0 when it matches nowhere
FirstMatch(line, i) ==
    IF i > Len(line) THEN 0
    ELSE IF MatchAt(line, i) THEN i
    ELSE FirstMatch(line, i + 1)

RECURSIVE NumberOf(_)
\* Number(match[1]) of a run of decimal digits
NumberOf(ds) ==
    IF ds = <<>> THEN 0
    ELSE 10 * NumberOf(SubSeq(ds, 1, Len(ds) - 1)) + DigitVal(ds[Len(ds)])

NotFound == [found |-> FALSE, lineNumber |-> 0, message |-> <<>>]

\* match[1] as a number and splitError[1], when the pattern matches
Locate(text) ==
    LET splitError == Split(text, NL)
    IN  IF Len(splitError) > 1
        THEN LET m == FirstMatch(splitError[2], 1)
             IN  IF m # 0
                 THEN [found |-> TRUE,
                       lineNumber |->
                           NumberOf(SubSeq(splitError[2], m + 1,
                                    DigitRunEnd(splitError[2], m + 1) - 1)),
                       message |-> splitError[2]]
                 ELSE NotFound
        ELSE NotFound

\* the vscode.Diagnostic built at extension.ts:179-187: the zero-based
\* line of its range and its message
DiagnosticOf(text) ==
    [line |-> Locate(text).lineNumber - 1, message |-> Locate(text).message]

\* the value startExecutable rejects with (extension.ts:198, 200)
RejectionOf(text) ==
    LET splitError == Split(text, NL)
    IN  IF Len(splitError) > 1
        THEN <<"Errors", splitError[2]>>
        ELSE <<"Error", text>>

(***************************************************************************)
(* The state of the extension as one record, so that the part of a command *)
(* that runs between two suspensions is a composition of functions on it.  *)
(***************************************************************************)
NoEditor == <<>>   \* activeTextEditor === undefined
NoName == <<>>     \* the empty string of extension.ts:13
NoError == <<>>    \* exec's callback got error === null

\* error.message of a failed exec: one line; two lines, no line number;
\* two lines with ":7:" in the second
Errors == { <<"x">>, <<"x", NL, "x">>, <<"x", NL, "x", ":", "7", ":">> }

Editors == Sources \cup {NoEditor}

\* latest marks the debug invocation after which no debug was invoked,
\* over the debug that began while a debug was blocked on its debugger
IdleInv == [cmd |-> None, pc |-> "idle", exe |-> NoName, file |-> NoEditor,
            doc |-> NoEditor, console |-> FALSE, asmFail |-> FALSE,
            linkFail |-> FALSE, latest |-> FALSE, over |-> FALSE]

\* lastDone tells which command the step just taken has ended, and how; a
\* step that ends none leaves it at NoneDone
NoneDone == [cmd |-> None, res |-> None]

St == [isRunning |-> isRunning,
       stoppingExecutable |-> stoppingExecutable,
       currentDebugFileExecutable |-> currentDebugFileExecutable,
       activeTextEditor |-> activeTextEditor,
       executablePath |-> executablePath,
       showTerminalInDebugMode |-> showTerminalInDebugMode,
       diagnostics |-> diagnostics,
       disk |-> disk,
       targets |-> targets,
       inv |-> inv,
       lastDone |-> NoneDone]

Commit(S) ==
    /\ isRunning' = S.isRunning
    /\ stoppingExecutable' = S.stoppingExecutable
    /\ currentDebugFileExecutable' = S.currentDebugFileExecutable
    /\ activeTextEditor' = S.activeTextEditor
    /\ executablePath' = S.executablePath
    /\ showTerminalInDebugMode' = S.showTerminalInDebugMode
    /\ diagnostics' = S.diagnostics
    /\ disk' = S.disk
    /\ targets' = S.targets
    /\ inv' = S.inv
    /\ lastDone' = S.lastDone
    /\ UNCHANGED <<errText, located>>

\* the command of slot i ends: "returned", or "rejected" when it threw
Finish(S, i, res) ==
    [S EXCEPT !.inv[i] = IdleInv,
              !.lastDone = [cmd |-> S.inv[i].cmd, res |-> res]]

setRunningState(S, running) == [S EXCEPT !.isRunning = running]

\* deleteFile issues fs.unlink and does not wait for it; its callback only
\* logs (extension.ts:261-266).  The file is taken to go when the unlink is
\* issued, and an unlink of a file that is not there changes nothing.
deleteFile(S, fileName) == [S EXCEPT !.disk = @ \ {fileName}]

(***************************************************************************)
(* Processes: tasklist and taskkill.                                       *)
(***************************************************************************)
\* the image names tasklist prints: a debugger is alive while pc = "dbg"
Listing(S) ==
    S.targets \cup
    (IF \E j \in Slots : S.inv[j].pc = "dbg" THEN {OLLYDBG_COMMAND} ELSE {})

\* String.prototype.includes on one image name
IsSubstring(name, image) ==
    \E k \in 0 .. (Len(image) - Len(name)) :
        SubSeq(image, k + 1, k + Len(name)) = name

\* stdout.toLowerCase().includes(executable.toLowerCase())
Includes(listing, executable) ==
    \E image \in listing : IsSubstring(executable, image)

\* taskkill /F /IM executable, when it succeeds: every process of that image
\* name ends; a killed debugger's exec callback is then due with an error
taskkill(S, executable) ==
    [S EXCEPT !.targets = @ \ {executable},
              !.inv = [j \in Slots |->
                         IF executable = OLLYDBG_COMMAND /\ @[j].pc = "dbg"
                         THEN [@[j] EXCEPT !.pc = "dbg_killed"]
                         ELSE @[j]]]

\* killExecutable up to its exec("tasklist"): phase 1 is the debugger,
\* phase 2 the tracked target
killExecutable(S, i, phase, executable) ==
    [S EXCEPT !.inv[i].pc = IF phase = 1 THEN "kill1_list" ELSE "kill2_list",
              !.inv[i].exe = executable]

\* startExecutable up to its exec: documentFileName is read at the call
startExecutable(S, i, step) ==
    [S EXCEPT !.inv[i].pc = step, !.inv[i].doc = S.activeTextEditor]

(***************************************************************************)
(* The commands, from the last suspension backwards.                       *)
(***************************************************************************)
\* debugCommand after the debugger's exec resolved (extension.ts:251-256)
debugCommandCleanup(S, i) ==
    LET f  == S.inv[i].file
        S1 == setRunningState(S, FALSE)
        S2 == deleteFile(S1, lstFile(f))
        S3 == deleteFile(S2, objFile(f))
        S4 == deleteFile(S3, exeFile(f))
    IN  Finish(S4, i, "returned")

\* debugCommand after the linker's exec resolved (extension.ts:249-250)
debugCommandLaunch(S, i) ==
    startExecutable(setRunningState([S EXCEPT !.inv[i].console = FALSE],
                                    TRUE), i, "dbg")

\* runCommand ending with the clean-up of debugCommand
runCommandLaunch_Deleting(S, i) ==
    LET f  == S.inv[i].file
        S1 == [S EXCEPT !.currentDebugFileExecutable = fileExecutableName(f)]
        S2 == deleteFile(deleteFile(S1, lstFile(f)), objFile(f))
    IN  Finish(S2, i, "returned")

\* runCommand after the linker's exec resolved (extension.ts:298-306): the
\* terminal runs the executable when the file is there
runCommandLaunch(S, i) ==
    LET f  == S.inv[i].file
        S1 == [S EXCEPT !.targets =
                   IF exeFile(f) \in S.disk
                   THEN @ \cup {fileExecutableName(f)} ELSE @]
        S2 == [S1 EXCEPT !.currentDebugFileExecutable = fileExecutableName(f)]
    IN  Finish(S2, i, "returned")

\* a debugCommand that omits diagnosticCollection.clear()
debugCommandBuild_NoClear(S, i, showTerminal) ==
    IF S.activeTextEditor = NoEditor
    THEN Finish(S, i, "noEditor")
    ELSE LET currentFile == S.activeTextEditor
             S1 == [S EXCEPT !.inv[i].file = currentFile,
                             !.inv[i].console = showTerminal,
                             !.currentDebugFileExecutable =
                                 fileExecutableName(currentFile)]
         IN  startExecutable(S1, i, "asm")

\* a debugCommand that links for the console whatever the setting says
debugCommandBuild_Console(S, i, showTerminal) ==
    IF S.activeTextEditor = NoEditor
    THEN Finish(S, i, "noEditor")
    ELSE LET currentFile == S.activeTextEditor
             S1 == [S EXCEPT !.inv[i].file = currentFile,
                             !.inv[i].console = TRUE,
                             !.currentDebugFileExecutable =
                                 fileExecutableName(currentFile),
                             !.diagnostics = {}]
         IN  startExecutable(S1, i, "asm")

\* debugCommand from its editor check to the assembler's exec
\* (extension.ts:218-246)
debugCommandBuild(S, i, showTerminal) ==
    IF S.activeTextEditor = NoEditor
    THEN Finish(S, i, "noEditor")
    ELSE LET currentFile == S.activeTextEditor
             S1 == [S EXCEPT !.inv[i].file = currentFile,
                             !.inv[i].console = showTerminal,
                             !.currentDebugFileExecutable =
                                 fileExecutableName(currentFile),
                             !.diagnostics = {}]
         IN  startExecutable(S1, i, "asm")

\* runCommand from its editor check to the assembler's exec
\* (extension.ts:277-295)
runCommandBuild(S, i) ==
    IF S.activeTextEditor = NoEditor
    THEN Finish(S, i, "noEditor")
    ELSE LET currentFile == S.activeTextEditor
             S1 == [S EXCEPT !.inv[i].file = currentFile,
                             !.inv[i].console = TRUE,
                             !.diagnostics = {}]
         IN  startExecutable(S1, i, "asm")

\* the command once getExecutablePath has a non-empty path
Build(S, i, showTerminal) ==
    IF S.inv[i].cmd = "debug"
    THEN debugCommandBuild(S, i, showTerminal)
    ELSE runCommandBuild(S, i)

\* getExecutablePath: the setting, or else an input box to wait for
getExecutablePath(S, i, showTerminal) ==
    IF S.executablePath
    THEN Build(S, i, showTerminal)
    ELSE [S EXCEPT !.inv[i].pc = "input"]

\* stopDebugging after its last killExecutable resolved
\* (extension.ts:126-127), and the caller's next lines
stopDebuggingEnd(S, i, showTerminal) ==
    LET S1 == setRunningState(S, FALSE)
        S2 == [S1 EXCEPT !.stoppingExecutable = FALSE]
    IN  IF S.inv[i].cmd = "stop"
        THEN Finish(S2, i, "returned")
        ELSE getExecutablePath(S2, i, showTerminal)

\* stopDebugging after a killExecutable resolved (extension.ts:120-125)
stopDebuggingNext(S, i, showTerminal) ==
    IF S.inv[i].pc \in {"kill1_list", "kill1_kill"}
       /\ S.currentDebugFileExecutable # NoName
    THEN killExecutable(S, i, 2, S.currentDebugFileExecutable)
    ELSE stopDebuggingEnd(S, i, showTerminal)

\* a stopDebugging that passes over the debugger and lists for the
\* tracked target only
stopDebugging_TargetOnly(S, i) ==
    killExecutable([S EXCEPT !.stoppingExecutable = TRUE], i, 2,
                   S.currentDebugFileExecutable)

\* stopDebugging up to its first suspension (extension.ts:117-119)
stopDebugging(S, i) ==
    killExecutable([S EXCEPT !.stoppingExecutable = TRUE], i, 1,
                   OLLYDBG_COMMAND)

\* the callback of exec("tasklist") (extension.ts:142-161): stdout is the
\* listing, or what was printed of it when the command failed.  After
\* reject the callback goes on, so a listed process is killed all the same.
\* The taskkill it spawns acts at once; killed tells whether it succeeds.
tasklistCallback(S, i, error, stdout, killed, showTerminal) ==
    LET executable == S.inv[i].exe
        found == Includes(stdout, executable)
        S1 == IF found /\ killed THEN taskkill(S, executable) ELSE S
    IN  IF error
        THEN Finish(S1, i, "rejected")
        ELSE IF found
        THEN [S1 EXCEPT !.inv[i].pc =
                  IF S.inv[i].pc = "kill1_list" THEN "kill1_kill"
                  ELSE "kill2_kill"]
        ELSE stopDebuggingNext(S, i, showTerminal)

\* how the promise of startExecutable is settled by exec's callback
\* (extension.ts:169-206); Uri.file(undefined) throws inside the callback
\* and leaves the promise pending
Settle(S, i, error) ==
    IF error # NoError /\ ~S.stoppingExecutable
    THEN IF Locate(error).found /\ S.inv[i].doc = NoEditor
         THEN "pending" ELSE "reject"
    ELSE "resolve"

\* the Diagnostic that callback registers (extension.ts:177-190)
Report(S, i, error) ==
    IF /\ error # NoError
       /\ ~S.stoppingExecutable
       /\ Locate(error).found
       /\ S.inv[i].doc # NoEditor
    THEN [S EXCEPT !.diagnostics =
              {d \in @ : d.file # S.inv[i].doc} \cup
              {[file |-> S.inv[i].doc,
                line |-> DiagnosticOf(error).line,
                message |-> DiagnosticOf(error).message]}]
    ELSE S

\* exec's callback for startExecutable and the lines that follow the await
startExecutableCallback(S, i, error, next) ==
    LET S1 == Report(S, i, error)
    IN  CASE Settle(S, i, error) = "resolve" -> next
          [] Settle(S, i, error) = "reject" -> Finish(S1, i, "rejected")
          [] OTHER -> [S1 EXCEPT !.inv[i].pc = "hung"]

(***************************************************************************)
(* Actions.                                                                *)
(***************************************************************************)
\* isTerminalVisible: the value of the setting asm.showTerminalInDebugMode
isTerminalVisible == showTerminalInDebugMode

\* a new invocation takes the lowest free slot
FreeSlot(i) ==
    /\ inv[i].pc = "idle"
    /\ \A j \in Slots : j < i => inv[j].pc # "idle"

\* the invocation record of a command that starts now
NewInv(cmd) == [IdleInv EXCEPT !.cmd = cmd]

\* the state in which slot i starts a command: a debug becomes the latest
Invoke(S, i, cmd) ==
    [S EXCEPT !.inv = [j \in Slots |->
                         IF j = i
                         THEN [NewInv(cmd) EXCEPT
                                  !.latest = (cmd = "debug"),
                                  !.over = (cmd = "debug" /\
                                            \E k \in Slots :
                                                S.inv[k].pc = "dbg")]
                         ELSE IF cmd = "debug"
                         THEN [@[j] EXCEPT !.latest = FALSE]
                         ELSE @[j]]]

\* asm.debug is invoked (extension.ts:211-212)
debugCommand(i) ==
    /\ FreeSlot(i)
    /\ Commit(stopDebugging(Invoke(St, i, "debug"), i))

\* asm.run is invoked (extension.ts:270-271)
runCommand(i) ==
    /\ FreeSlot(i)
    /\ Commit(stopDebugging(Invoke(St, i, "run"), i))

\* asm.stop is invoked (extension.ts:308-309)
stopCommand(i) ==
    /\ FreeSlot(i)
    /\ Commit(stopDebugging(Invoke(St, i, "stop"), i))

\* tasklist ends and its callback runs
TasklistDone(i) ==
    /\ inv[i].pc \in {"kill1_list", "kill2_list"}
    /\ \E error \in BOOLEAN, whole \in BOOLEAN, killed \in BOOLEAN,
          showTerminal \in {isTerminalVisible} :
        /\ ~error => whole
        /\ Commit(tasklistCallback(St, i, error,
                                   IF whole THEN Listing(St) ELSE {},
                                   killed, showTerminal))

\* taskkill ends and its callback runs (extension.ts:149-156): it resolves
\* whether or not taskkill reported an error
TaskkillDone(i) ==
    /\ inv[i].pc \in {"kill1_kill", "kill2_kill"}
    /\ \E showTerminal \in {isTerminalVisible} :
        Commit(stopDebuggingNext(St, i, showTerminal))

\* the input box of getExecutablePath is answered (extension.ts:93-113) and
\* the command goes on from extension.ts:214 / 273
InputBoxDone(i) ==
    /\ inv[i].pc = "input"
    /\ \E entered \in BOOLEAN, showTerminal \in {isTerminalVisible} :
        Commit(IF entered
               THEN Build([St EXCEPT !.executablePath = TRUE], i, showTerminal)
               ELSE Finish(St, i, "noPath"))

\* nasm ends and its callback runs; on success it has written the listing
\* and the object file, on failure perhaps a partial listing
AssemblerDone(i) ==
    /\ inv[i].pc = "asm"
    /\ \E error \in Errors \cup {NoError}, listing \in BOOLEAN :
        LET f  == inv[i].file
            S1 == [St EXCEPT
                     !.disk = IF error = NoError
                              THEN @ \cup {lstFile(f), objFile(f)}
                              ELSE IF listing THEN @ \cup {lstFile(f)} ELSE @,
                     !.inv[i].asmFail = (error # NoError)]
        IN  /\ error = NoError => listing
            /\ Commit(startExecutableCallback(S1, i, error,
                                              startExecutable(S1, i, "link")))

\* ALINK ends and its callback runs; it can succeed only on an object file
AlinkDone(i) ==
    /\ inv[i].pc = "link"
    /\ \E error \in Errors \cup {NoError} :
        LET f  == inv[i].file
            S1 == [St EXCEPT
                     !.disk = IF error = NoError THEN @ \cup {exeFile(f)}
                              ELSE @,
                     !.inv[i].linkFail = (error # NoError)]
        IN  /\ error = NoError => objFile(f) \in disk
            /\ Commit(startExecutableCallback(S1, i, error,
                          IF inv[i].cmd = "debug"
                          THEN debugCommandLaunch(S1, i)
                          ELSE runCommandLaunch(S1, i)))

\* the debugger process ends by itself: the user closes it (exit status 0)
\* or it fails (it cannot start, or exits with another status)
DebuggerExits(i) ==
    /\ inv[i].pc = "dbg"
    /\ \E how \in {"dbg_ok", "dbg_err"} :
        Commit([St EXCEPT !.inv[i].pc = how])

\* the callback of the debugger's exec runs
DebuggerDone(i) ==
    /\ inv[i].pc \in {"dbg_ok", "dbg_err", "dbg_killed"}
    /\ \E error \in Errors \cup {NoError} :
        /\ error = NoError <=> inv[i].pc = "dbg_ok"
        /\ Commit(startExecutableCallback(St, i, error,
                                          debugCommandCleanup(St, i)))

\* a target started from the terminal ends by itself
TargetExits(name) ==
    /\ name \in targets
    /\ Commit([St EXCEPT !.targets = @ \ {name}])

\* onDidChangeActiveTextEditor (extension.ts:67-72)
ChangeActiveTextEditor(editor) ==
    /\ editor # activeTextEditor
    /\ Commit([St EXCEPT !.activeTextEditor = editor])

\* the user changes the setting asm.showTerminalInDebugMode
ChangeShowTerminalInDebugMode ==
    Commit([St EXCEPT !.showTerminalInDebugMode = ~@])

\* the state after activate(): the settings have the defaults of the
\* package manifest (asm.showStopIconInEditorTitleMenu: true,
\* asm.executablePath: "", asm.showTerminalInDebugMode: true), nothing is
\* running and no file is derived yet
Init ==
    /\ isRunning = TRUE
    /\ stoppingExecutable = FALSE
    /\ currentDebugFileExecutable = NoName
    /\ activeTextEditor \in Editors
    /\ executablePath = FALSE
    /\ showTerminalInDebugMode = TRUE
    /\ diagnostics = {}
    /\ disk = {}
    /\ targets = {}
    /\ inv = [i \in Slots |-> IdleInv]
    /\ lastDone = NoneDone
    /\ errText = <<>>
    /\ located = [status |-> "unused"]

Next ==
    \/ \E i \in Slots : debugCommand(i)
    \/ \E i \in Slots : runCommand(i)
    \/ \E i \in Slots : stopCommand(i)
    \/ \E i \in Slots : TasklistDone(i)
    \/ \E i \in Slots : TaskkillDone(i)
    \/ \E i \in Slots : InputBoxDone(i)
    \/ \E i \in Slots : AssemblerDone(i)
    \/ \E i \in Slots : AlinkDone(i)
    \/ \E i \in Slots : DebuggerExits(i)
    \/ \E i \in Slots : DebuggerDone(i)
    \/ \E name \in TargetNames : TargetExits(name)
    \/ \E editor \in Editors : ChangeActiveTextEditor(editor)
    \/ ChangeShowTerminalInDebugMode

Spec == Init /\ [][Next]_vars

(***************************************************************************)
(* The Error Locator on its own: errText ranges over every text of at most *)
(* MaxLen characters, and LocateError applies the error branch of          *)
(* startExecutable's callback to it, for an invocation that waits for the  *)
(* assembler with the source file in the active editor.                    *)
(***************************************************************************)
Texts == UNION { [1 .. n -> Chars] : n \in 0 .. MaxLen }

TheSource == CHOOSE f \in Sources : TRUE

LocatorState ==
    [St EXCEPT !.activeTextEditor = TheSource,
               !.inv[1] = [NewInv("run") EXCEPT !.pc = "asm",
                                                !.file = TheSource,
                                                !.doc = TheSource]]

LocInit ==
    /\ isRunning = TRUE
    /\ stoppingExecutable = FALSE
    /\ currentDebugFileExecutable = NoName
    /\ activeTextEditor = TheSource
    /\ executablePath = TRUE
    /\ showTerminalInDebugMode = TRUE
    /\ diagnostics = {}
    /\ disk = {}
    /\ targets = {}
    /\ inv = [i \in Slots |-> IdleInv]
    /\ lastDone = NoneDone
    /\ errText \in Texts
    /\ located = [status |-> "unused"]

LocateError ==
    /\ located.status = "unused"
    /\ located' = [status |-> "done",
                   result |-> Locate(errText),
                   settled |-> Settle(LocatorState, 1, errText),
                   rejection |-> RejectionOf(errText),
                   diagnostics |-> Report(LocatorState, 1, errText).diagnostics]
    /\ UNCHANGED <<isRunning, stoppingExecutable, currentDebugFileExecutable,
                   activeTextEditor, executablePath, showTerminalInDebugMode,
                   diagnostics, disk, targets, inv, lastDone, errText>>

LocNext == LocateError

SpecLocator == LocInit /\ [][LocNext]_vars

(***************************************************************************)
(* Properties.                                                             *)
(***************************************************************************)
KillListPcs == {"kill1_list", "kill2_list"}
KillPcs == {"kill1_list", "kill1_kill", "kill2_list", "kill2_kill"}

\* slot i takes the step
Steps(i) == inv'[i] # inv[i] /\ inv[i].pc \notin {"dbg", "hung"}

\* the command slot i runs during the step
CmdOf(i) == IF inv[i].pc = "idle" THEN inv'[i].cmd ELSE inv[i].cmd

\* slot i's command ends with the step
Ends(i) == inv[i].pc # "idle" /\ inv'[i].pc = "idle"

\* the shared precondition of debug and run does not hold
PreconditionMissing == ~executablePath \/ activeTextEditor = NoEditor

\* the slots whose debugger process is alive
Debuggers == {j \in Slots : inv[j].pc = "dbg"}

\* what the claims call the Session
Session == <<isRunning, currentDebugFileExecutable, targets, Debuggers,
             diagnostics>>

Derived(f) == {lstFile(f), objFile(f), exeFile(f)}

\* C1: whenever an invocation of debug, run or stop ends, by return or by
\* an error, the running flag is false at that point.
C1_FlagFalseAtEveryEnd ==
    [][\A i \in Slots : Ends(i) => ~isRunning']_vars

\* C2: a debug or run invoked while the toolchain root is unset or no
\* source file is active spawns no external process: neither the invocation
\* nor a step of its stopping phase taken while the precondition is still
\* missing starts a tasklist or a taskkill.
C2_NoSpawnWithoutPrecondition ==
    [][\A i \in Slots :
         /\ Steps(i)
         /\ CmdOf(i) \in {"debug", "run"}
         /\ inv[i].pc \in {"idle"} \cup KillPcs
         /\ PreconditionMissing
         => inv'[i].pc \notin KillPcs]_vars

\* C3: a debug or run invoked while the toolchain root is unset or no
\* source file is active leaves the Session as it was: the running flag,
\* the tracked target name, the running debugger and target processes and
\* the diagnostics are unchanged by each of its steps up to the check.
C3_SessionUnchangedWithoutPrecondition ==
    [][\A i \in Slots :
         /\ Steps(i)
         /\ CmdOf(i) \in {"debug", "run"}
         /\ inv[i].pc \in {"idle"} \cup KillPcs
         /\ PreconditionMissing
         => Session' = Session]_vars

\* C4: in every debug or run invocation, once the assembler has failed the
\* linker is not invoked, whatever else is in progress.
C4_NoLinkAfterAssemblerFailure ==
    [][\A i \in Slots :
         inv[i].pc = "asm" /\ inv'[i].pc = "link" => ~inv'[i].asmFail]_vars

\* C5: when the debugger was killed by a stopping phase, the callback of
\* its exec reports nothing and the blocked debug goes on: it returns
\* normally, the running flag is false, the derived files are deleted and
\* no diagnostic has been added, whenever that callback is delivered.
C5_KilledDebuggerSuppressed ==
    [][\A i \in Slots :
         inv[i].pc = "dbg_killed" /\ inv'[i].pc # "dbg_killed"
         => /\ lastDone' = [cmd |-> "debug", res |-> "returned"]
            /\ ~isRunning'
            /\ Derived(inv[i].file) \cap disk' = {}
            /\ diagnostics' = diagnostics]_vars

\* C6: ensureStopped never fails for its caller: no step of a stopping
\* phase ends the enclosing command with an error, so the command always
\* goes on to its remaining steps.
C6_EnsureStoppedNeverFails ==
    [][\A i \in Slots :
         Steps(i) /\ inv[i].pc \in KillPcs
         => lastDone'.res # "rejected"]_vars

\* C7: ensureStopped on a name that is absent from the process listing
\* issues no kill command, raises no error and changes no observable
\* state, and a stop that finds no matching process returns without error
\* with the running flag false.
C7_EnsureStoppedIdempotent ==
    [][\A i \in Slots :
         /\ Steps(i)
         /\ inv[i].pc \in KillListPcs
         /\ ~Includes(Listing(St), inv[i].exe)
         => /\ inv'[i].pc \notin {"kill1_kill", "kill2_kill"}
            /\ targets' = targets
            /\ Debuggers' = Debuggers
            /\ lastDone'.res # "rejected"
            /\ (Ends(i) /\ inv[i].cmd = "stop" => ~isRunning')]_vars

\* C8: when a debug whose assembler and linker succeeded ends after its
\* debugger exited normally or was killed, the three derived files are
\* deleted; and no step of it deletes a file while it builds.
C8_DebugDeletesDerivedFiles ==
    [][\A i \in Slots :
         /\ (/\ inv[i].pc \in {"dbg_ok", "dbg_killed"}
             /\ ~inv[i].asmFail /\ ~inv[i].linkFail
             /\ Ends(i)
             => Derived(inv[i].file) \cap disk' = {})
         /\ (/\ Steps(i) /\ inv[i].cmd = "debug"
             /\ inv[i].pc \in {"asm", "link"}
             => disk \subseteq disk')]_vars

\* C9: a run invocation never deletes a derived file: every derived file
\* that exists before one of its steps, from the invocation to the return,
\* still exists after that step, whether its build succeeds or fails.
C9_RunNeverDeletes ==
    [][\A i \in Slots :
         Steps(i) /\ CmdOf(i) = "run" => disk \subseteq disk']_vars

\* a run has returned after a successful build and all three derived files
\* are on disk
C9_Witness ==
    /\ lastDone = [cmd |-> "run", res |-> "returned"]
    /\ Derived(TheSource) \subseteq disk
    /\ fileExecutableName(TheSource) \in targets

(***************************************************************************)
(* C10, stated without the code's scan: the lines of a text are told by    *)
(* the positions of its line breaks, a location by a pair of colons that   *)
(* enclose digits only.                                                    *)
(***************************************************************************)
Breaks(text) == {k \in 1 .. Len(text) : text[k] = NL}

Min(set) == CHOOSE m \in set : \A n \in set : m <= n

\* the line of index 1, for a text with a line break
SecondLine(text) ==
    LET first == Min(Breaks(text))
        later == {k \in Breaks(text) : k > first} \cup {Len(text) + 1}
    IN  SubSeq(text, first + 1, Min(later) - 1)

\* the pairs <<a, b>> of positions of two colons with one or more digits,
\* and nothing else, between them
Enclosures(line) ==
    {p \in (1 .. Len(line)) \X (1 .. Len(line)) :
        /\ p[1] + 1 < p[2]
        /\ line[p[1]] = ":" /\ line[p[2]] = ":"
        /\ \A k \in (p[1] + 1) .. (p[2] - 1) : line[k] \in Digits}

RECURSIVE Pow10(_)
Pow10(n) == IF n = 0 THEN 1 ELSE 10 * Pow10(n - 1)

RECURSIVE SumOver(_, _, _)
\* the decimal value of line[a+1 .. b-1], digit by digit from position k
SumOver(line, k, b) ==
    IF k >= b THEN 0
    ELSE DigitVal(line[k]) * Pow10(b - 1 - k) + SumOver(line, k + 1, b)

\* the value of the first digit run enclosed by colons
FirstEnclosedValue(line) ==
    LET p == CHOOSE q \in Enclosures(line) :
                 \A r \in Enclosures(line) : q[1] <= r[1]
    IN  SumOver(line, p[1] + 1, p[2])

ShouldLocate(text) ==
    Breaks(text) # {} /\ Enclosures(SecondLine(text)) # {}

\* C10: for every error text a location is found exactly when the text has
\* at least two lines and the second contains a colon, one or more digits
\* and a colon; the line number is the value of the first such digit run,
\* the message the whole second line, the diagnostic of a 1-based line
\* number is placed at that number minus one; otherwise nothing is found
\* and no diagnostic is registered.
C10_ErrorLocator ==
    located.status = "done" =>
        /\ located.result.found <=> ShouldLocate(errText)
        /\ ShouldLocate(errText) =>
              /\ located.result.lineNumber =
                     FirstEnclosedValue(SecondLine(errText))
              /\ located.result.message = SecondLine(errText)
              /\ FirstEnclosedValue(SecondLine(errText)) >= 1 =>
                     located.diagnostics =
                       {[file |-> TheSource,
                         line |-> FirstEnclosedValue(SecondLine(errText)) - 1,
                         message |-> SecondLine(errText)]}
        /\ ~ShouldLocate(errText) =>
              /\ located.result = NotFound
              /\ located.diagnostics = {}

\* the locator has found line 70 behind an earlier colon that starts no
\* match, in a second line that is longer than the match
C10_Witness ==
    /\ located.status = "done"
    /\ located.result.found
    /\ located.result.lineNumber = 70
    /\ Len(located.result.message) > 4
    /\ located.diagnostics # {}

\* ---------------------------------------------------------------------
\* C11: every step in which a debug or a run starts its assembler leaves
\* the diagnostic set empty: no Diagnostic of an earlier build attempt is
\* present at the moment the assembler of the new build starts.
C11_DiagnosticsClearedAtBuild ==
    [][\A i \in Slots :
          inv[i].pc # "asm" /\ inv'[i].pc = "asm" => diagnostics' = {}]_vars

\* an assembler has just been started with an empty diagnostic set while
\* the listing of an earlier, failed assembler step is still on the disk
C11_Witness ==
    \E i \in Slots :
        /\ inv[i].pc = "asm"
        /\ diagnostics = {}
        /\ lstFile(inv[i].file) \in disk
        /\ objFile(inv[i].file) \notin disk

\* ---------------------------------------------------------------------
\* C12: the debugger (debug) or the terminal (run) is launched only after
\* both the assembler and the linker of that same invocation succeeded,
\* so that the executable it is handed exists.
C12_LaunchOnlyAfterBuild ==
    [][\A i \in Slots :
          /\ inv[i].pc = "link"
          /\ \/ inv'[i].pc = "dbg"
             \/ /\ CmdOf(i) = "run"
                /\ Ends(i)
                /\ lastDone'.res = "returned"
          => /\ ~inv[i].asmFail
             /\ inv'[i].pc = "dbg" => ~inv'[i].linkFail
             /\ exeFile(inv[i].file) \in disk']_vars

\* ---------------------------------------------------------------------
\* C13: the running flag is true for as long as the debugger process
\* launched by the most recent debug() is running; it is cleared only
\* when that debugger exits or is killed.
C13_FlagTrueWhileDebuggerRuns ==
    \A i \in Slots : inv[i].pc = "dbg" /\ inv[i].latest => isRunning

C15_TrackingAndStopOrder ==
    [][\A i \in Slots :
          /\ Steps(i) /\ CmdOf(i) = "run"
             => IF Ends(i) /\ lastDone'.res = "returned"
                THEN currentDebugFileExecutable' =
                         fileExecutableName(inv[i].file)
                ELSE currentDebugFileExecutable' = currentDebugFileExecutable
          /\ Steps(i) /\ CmdOf(i) = "stop"
             => /\ inv[i].pc = "idle"
                   => /\ inv'[i].pc = "kill1_list"
                      /\ inv'[i].exe = OLLYDBG_COMMAND
                /\ inv'[i].pc = "kill2_list"
                   => inv'[i].exe = currentDebugFileExecutable
                /\ Ends(i) /\ inv[i].pc \in {"kill1_list", "kill1_kill"}
                   => currentDebugFileExecutable = NoName
                /\ Ends(i)
                   => /\ Debuggers' = {}
                      /\ currentDebugFileExecutable' \notin targets']_vars

\* ---------------------------------------------------------------------
\* C16 as stated: the linker command of every debug() carries the
\* console-subsystem flag, whatever the show-terminal setting is.
C16_DebugAlwaysConsole ==
    \A i \in Slots :
        inv[i].cmd = "debug" /\ inv[i].pc \in {"asm", "link"}
        => inv[i].console

\* C16 amended: the linker command a debug() prepares carries the
\* console-subsystem flag exactly when the show-terminal setting is true
\* at that moment, the one a run() prepares carries it always, and the
\* command is issued to the linker as it was prepared.
C16_ConsoleFollowsSetting ==
    [][\A i \in Slots :
          /\ inv[i].pc # "asm" /\ inv'[i].pc = "asm"
             => inv'[i].console =
                    (CmdOf(i) = "run" \/ showTerminalInDebugMode)
          /\ inv[i].pc = "asm" /\ inv'[i].pc = "link"
             => inv'[i].console = inv[i].console]_vars

\* the linker of a debug() runs without the console-subsystem flag
C16_Witness ==
    \E i \in Slots :
        /\ inv[i].cmd = "debug"
        /\ inv[i].pc = "link"
        /\ ~inv[i].console

\* ---------------------------------------------------------------------
\* C17: a Diagnostic is registered only by the callback of a failed
\* assembler step; the callback of the linker or of the debugger never
\* adds one to the diagnostic set.
C17_DiagnosticOnlyFromAssembler ==
    [][~(diagnostics' \subseteq diagnostics)
       => \E i \in Slots : inv[i].pc = "asm" /\ inv'[i] # inv[i]]_vars

\* ---------------------------------------------------------------------
\* C18: no invocation waits forever on a promise that is never settled:
\* each invocation returns to Idle once the callbacks of its commands are
\* delivered.  An invocation at "hung" awaits a promise whose callback has
\* run and has neither resolved nor rejected it; no step leads out of it.
C18_NoInvocationHangs ==
    \A i \in Slots : inv[i].pc # "hung"

\* ---------------------------------------------------------------------
\* C19: the intentional-stop marker is true only while a stopDebugging
\* call is executing: whenever no invocation is in its stopping phase,
\* stoppingExecutable is false.
C19_MarkerOnlyWhileStopping ==
    stoppingExecutable => \E i \in Slots : inv[i].pc \in KillPcs

\* ---------------------------------------------------------------------
\* C20: when a debug() began while an earlier debug() was blocked on its
\* debugger, the clean-up of the earlier one never removes a file that the
\* build of the newer one has produced and still needs: while the newer
\* invocation waits for its linker, the object file its assembler wrote
\* stays on the disk, and while its debugger runs, so does the executable.
C20_CleanupSparesNewerBuild ==
    [][\A i, j \in Slots :
          /\ i # j
          /\ Steps(i) /\ CmdOf(i) = "debug"
          /\ inv[i].pc \in {"dbg_ok", "dbg_err", "dbg_killed"}
          /\ inv[j].over
          => /\ inv[j].pc = "link" /\ ~inv[j].asmFail
                => (disk \ disk') \cap {objFile(inv[j].file)} = {}
             /\ inv[j].pc = "dbg" /\ ~inv[j].asmFail /\ ~inv[j].linkFail
                => (disk \ disk') \cap {exeFile(inv[j].file)} = {}]_vars

====
